---- MODULE Spec2Model ----
(***************************************************************************)
(* A model of BookBinder: parse2.py (the full-featured assembler) and      *)
(* parse_headings.py (the minimal one).                                    *)
(*                                                                         *)
(* Text is a sequence of characters, each a string: the characters of     *)
(* ASCII and the white space of Unicode (see Ascii and OtherCharacters).   *)
(* Paths are relative and hold no '..'; the text of a file is valid UTF-8. *)
(***************************************************************************)
EXTENDS Integers, Sequences, FiniteSets, TLC

VARIABLES
    pc,                  \* position of the run
    argv,                \* sys.argv
    tree,                \* the file system below the current directory
    final_mode,          \* parse2.main: final_mode
    input_arg,           \* parse2.main: input_arg
    root_folder,         \* parse2.main: root_folder
    files_to_process,    \* parse2.main: files_to_process, the part still to do
    items_todo,          \* parse2.main: the items of the current file still to do
    output_buffer,       \* parse2.main: output_buffer
    word_count_buffer,   \* parse2.main: word_count_buffer
    word_count,          \* parse2.main: word_count (-1 before it is computed)
    stdout,              \* what the run has printed
    exit_code,           \* the exit status (-1 while running)
    processed,           \* history: how each item was dispatched, in order
    lines,               \* extract_list_items_by_heading: the lines of the file
    headings_with_items, \* extract_list_items_by_heading: its result
    text,                \* count_words_in_markdown: its argument
    filename,            \* find_markdown_file: its argument
    found,               \* find_markdown_file: its result
    min_pc,              \* parse_headings.main: position of the run
    min_headings_with_items, \* parse_headings.main: headings_with_items
    min_items,           \* parse_headings.main: items still to do
    min_out              \* parse_headings.main: what it has printed

vars == <<pc, argv, tree, final_mode, input_arg, root_folder, files_to_process,
          items_todo, output_buffer, word_count_buffer, word_count, stdout,
          exit_code, processed, lines, headings_with_items, text, filename,
          found, min_pc, min_headings_with_items, min_items, min_out>>

mainVars == <<argv, tree, final_mode, input_arg, root_folder, files_to_process,
              items_todo, output_buffer, word_count_buffer, word_count, stdout,
              exit_code, processed>>
minVars == <<min_pc, min_headings_with_items, min_items, min_out>>

-----------------------------------------------------------------------------
(* Characters and strings.  The characters of the model are those of      *)
(* ASCII and the white space of Unicode.  A character that has no escape   *)
(* in a TLA+ string is written by its code point, "U+000B"; the backquote  *)
(* is written BT.                                                          *)

NL == "\n"
BT == "BT"
Digits == {"0", "1", "2", "3", "4", "5", "6", "7", "8", "9"}

\* The characters U+0020 to U+007E, in the order of their code points.
Ascii ==
    << " ", "!", "\"", "#", "$", "%", "&", "'", "(", ")", "*", "+",
       ",", "-", ".", "/", "0", "1", "2", "3", "4", "5", "6", "7",
       "8", "9", ":", ";", "<", "=", ">", "?", "@", "A", "B", "C",
       "D", "E", "F", "G", "H", "I", "J", "K", "L", "M", "N", "O",
       "P", "Q", "R", "S", "T", "U", "V", "W", "X", "Y", "Z", "[",
       "\\", "]", "^", "_", BT, "a", "b", "c", "d", "e", "f", "g",
       "h", "i", "j", "k", "l", "m", "n", "o", "p", "q", "r", "s",
       "t", "u", "v", "w", "x", "y", "z", "{", "|", "}", "~" >>

\* The other characters, each with its code point: the white space of
\* Unicode that is not the blank.
OtherCharacters ==
    << <<"\t", 9>>, <<NL, 10>>, <<"U+000B", 11>>, <<"\f", 12>>,
       <<"\r", 13>>, <<"U+001C", 28>>, <<"U+001D", 29>>, <<"U+001E", 30>>,
       <<"U+001F", 31>>, <<"U+0085", 133>>, <<"U+00A0", 160>>, <<"U+1680", 5760>>,
       <<"U+2000", 8192>>, <<"U+2001", 8193>>, <<"U+2002", 8194>>, <<"U+2003", 8195>>,
       <<"U+2004", 8196>>, <<"U+2005", 8197>>, <<"U+2006", 8198>>, <<"U+2007", 8199>>,
       <<"U+2008", 8200>>, <<"U+2009", 8201>>, <<"U+200A", 8202>>, <<"U+2028", 8232>>,
       <<"U+2029", 8233>>, <<"U+202F", 8239>>, <<"U+205F", 8287>>, <<"U+3000", 12288>> >>

Range(f) == {f[i] : i \in DOMAIN f}

\* ord(c)
Ord(c) ==
    IF \E i \in DOMAIN Ascii : Ascii[i] = c
    THEN 31 + (CHOOSE i \in DOMAIN Ascii : Ascii[i] = c)
    ELSE (CHOOSE e \in Range(OtherCharacters) : e[1] = c)[2]

\* c.lower()
LowerChar(c) ==
    IF \E i \in 34..59 : Ascii[i] = c
    THEN Ascii[32 + (CHOOSE i \in 34..59 : Ascii[i] = c)]
    ELSE c

\* c.isspace(): str.strip(), str.split() and the regular expressions' \s
\* agree on it.
IsSpace(c) == c = " " \/ \E e \in Range(OtherCharacters) : e[1] = c

RECURSIVE Concat(_)
Concat(ss) == IF ss = <<>> THEN <<>> ELSE Head(ss) \o Concat(Tail(ss))

\* s[from:] of Python, from counted from 0.
DropFirst(s, n) == IF n >= Len(s) THEN <<>> ELSE SubSeq(s, n + 1, Len(s))

StartsWith(s, p) == Len(s) >= Len(p) /\ SubSeq(s, 1, Len(p)) = p
EndsWith(s, p) == Len(s) >= Len(p) /\ SubSeq(s, Len(s) - Len(p) + 1, Len(s)) = p

\* s.strip()
Strip(s) ==
    LET keep == {i \in 1..Len(s) : ~IsSpace(s[i])} IN
    IF keep = {} THEN <<>>
    ELSE SubSeq(s, CHOOSE i \in keep : \A j \in keep : i <= j,
                   CHOOSE i \in keep : \A j \in keep : j <= i)

\* The least element of a non-empty set of numbers.
Least(S) == CHOOSE x \in S : \A y \in S : x <= y

\* The first index >= i of s whose character is in stop, Len(s) + 1 if none.
RunEnd(s, i, stop) ==
    LET hits == {j \in i..Len(s) : s[j] \in stop} IN
    IF i > Len(s) THEN i ELSE IF hits = {} THEN Len(s) + 1 ELSE Least(hits)

\* The first index >= i of s whose character is not in keep.
RunWhile(s, i, keep) ==
    LET hits == {j \in i..Len(s) : s[j] \notin keep} IN
    IF i > Len(s) THEN i ELSE IF hits = {} THEN Len(s) + 1 ELSE Least(hits)

\* The first index >= i of s whose character is no white space.
SpaceEnd(s, i) ==
    LET hits == {j \in i..Len(s) : ~IsSpace(s[j])} IN
    IF i > Len(s) THEN i ELSE IF hits = {} THEN Len(s) + 1 ELSE Least(hits)

\* The first index >= i of s whose character is white space.
WordEnd(s, i) ==
    LET hits == {j \in i..Len(s) : IsSpace(s[j])} IN
    IF i > Len(s) THEN i ELSE IF hits = {} THEN Len(s) + 1 ELSE Least(hits)

At(s, i) == IF i >= 1 /\ i <= Len(s) THEN s[i] ELSE "EOF"

\* What a file opened in text mode gives for its text: '\r\n' and a lone '\r'
\* are read as '\n'.
UniversalNewlines(s) ==
    LET read == [i \in DOMAIN s |->
                    IF s[i] # "\r" THEN s[i]
                    ELSE IF At(s, i + 1) = NL THEN "" ELSE NL]
    IN  SelectSeq(read, LAMBDA c : c # "")

\* The lines of a text that was read, each without its line break.
RECURSIVE LinesOf(_)
LinesOf(s) ==
    IF s = <<>> THEN <<>>
    ELSE LET e == RunEnd(s, 1, {NL}) IN
         <<SubSeq(s, 1, e - 1)>> \o LinesOf(DropFirst(s, e))

\* The lines the loop over a text file visits, each without its line break.
SplitLines(s) == LinesOf(UniversalNewlines(s))

-----------------------------------------------------------------------------
(* extract_list_items_by_heading, of parse2.py and of parse_headings.py *)

\* parse2.py: stripped_line.startswith('##') and
\*            (len(stripped_line) == 2 or stripped_line[2] == ' ')
IsLevel2Heading_AnyHashes(stripped_line) == StartsWith(stripped_line, <<"#", "#">>)
IsLevel2Heading(stripped_line) ==
    /\ StartsWith(stripped_line, <<"#", "#">>)
    /\ (Len(stripped_line) = 2 \/ stripped_line[3] = " ")

\* parse_headings.py: stripped_line.startswith('## ')
MinIsLevel2Heading(stripped_line) == StartsWith(stripped_line, <<"#", "#", " ">>)

\* stripped_line.startswith('- ') or stripped_line.startswith('* ')
IsListItem(stripped_line) ==
    \/ StartsWith(stripped_line, <<"-", " ">>)
    \/ StartsWith(stripped_line, <<"*", " ">>)

\* The title of a heading line: stripped_line[3:].strip(), or '' for a bare ##.
HeadingTitle(stripped_line) ==
    IF Len(stripped_line) > 2 THEN Strip(DropFirst(stripped_line, 3)) ELSE <<>>

\* One iteration of the loop over the lines (minimal: that of parse_headings.py).
\* st holds current_heading (<<>> for None, <<title>> otherwise), current_items
\* and headings_with_items.
SegStep(minimal, st, line) ==
    LET stripped_line == Strip(line) IN
    IF (IF minimal THEN MinIsLevel2Heading(stripped_line)
                   ELSE IsLevel2Heading(stripped_line))
    THEN [current_heading |-> <<HeadingTitle(stripped_line)>>,
          current_items |-> <<>>,
          result |-> IF st.current_heading # <<>>
                     THEN Append(st.result, [title |-> st.current_heading[1],
                                             items |-> st.current_items])
                     ELSE st.result]
    ELSE IF st.current_heading # <<>> /\ IsListItem(stripped_line)
    THEN [st EXCEPT !.current_items =
             Append(@, Strip(DropFirst(stripped_line, 2)))]
    ELSE st

RECURSIVE SegLoop(_, _, _)
SegLoop(minimal, st, ls) ==
    IF ls = <<>> THEN st
    ELSE SegLoop(minimal, SegStep(minimal, st, Head(ls)), Tail(ls))

\* The loop, then the last heading.
Segment(minimal, ls) ==
    LET st == SegLoop(minimal, [current_heading |-> <<>>, current_items |-> <<>>,
                                result |-> <<>>], ls) IN
    IF st.current_heading # <<>>
    THEN Append(st.result, [title |-> st.current_heading[1],
                            items |-> st.current_items])
    ELSE st.result

\* The two functions, on the text of the file they open.
extract_list_items_by_heading(file_text) == Segment(FALSE, SplitLines(file_text))
min_extract_list_items_by_heading(file_text) == Segment(TRUE, SplitLines(file_text))

-----------------------------------------------------------------------------
(* The regular expressions of parse2.py.  Each XxxEnd(t, i) is the index  *)
(* just past the match of the pattern that starts at index i of t, and 0   *)
(* when the pattern does not match there.                                  *)

\* ^ under re.MULTILINE: the start of the text, or just after a line break.
AtLineStart(t, i) == i = 1 \/ t[i - 1] = NL

\* \[\[([^\]|]+)(?:\|[^\]]+)?\]\]
WikilinkTargetEnd(t, i) == RunEnd(t, i + 2, {"]", "|"})
WikilinkEnd(t, i) ==
    IF At(t, i) = "[" /\ At(t, i + 1) = "["
    THEN LET j == WikilinkTargetEnd(t, i) IN
         IF j = i + 2 THEN 0
         ELSE IF At(t, j) = "]" /\ At(t, j + 1) = "]" THEN j + 2
         ELSE IF At(t, j) = "|"
         THEN LET k == RunEnd(t, j + 1, {"]"}) IN
              IF k > j + 1 /\ At(t, k) = "]" /\ At(t, k + 1) = "]"
              THEN k + 2 ELSE 0
         ELSE 0
    ELSE 0

\* ^```[^\n]*$ under re.MULTILINE
FenceEnd(t, i) ==
    IF AtLineStart(t, i) /\ At(t, i) = BT /\ At(t, i + 1) = BT /\ At(t, i + 2) = BT
    THEN RunEnd(t, i + 3, {NL})
    ELSE 0

\* `
BacktickEnd(t, i) == IF t[i] = BT THEN i + 1 ELSE 0

\* <[^>]+>
HtmlTagEnd(t, i) ==
    IF t[i] = "<"
    THEN LET j == RunEnd(t, i + 1, {">"}) IN
         IF j > i + 1 /\ j <= Len(t) THEN j + 1 ELSE 0
    ELSE 0

\* \[([^\]]+)\]\([^\)]+\)
LinkEnd(t, i) ==
    IF t[i] = "["
    THEN LET j == RunEnd(t, i + 1, {"]"}) IN
         IF j > i + 1 /\ At(t, j) = "]" /\ At(t, j + 1) = "("
         THEN LET k == RunEnd(t, j + 2, {")"}) IN
              IF k > j + 2 /\ k <= Len(t) THEN k + 1 ELSE 0
         ELSE 0
    ELSE 0

\* group 1 of the link pattern matched at i
LinkText(t, i) == SubSeq(t, i + 1, RunEnd(t, i + 1, {"]"}) - 1)

\* !\[([^\]]*)\]\([^\)]+\)
ImageEnd(t, i) ==
    IF t[i] = "!" /\ At(t, i + 1) = "["
    THEN LET j == RunEnd(t, i + 2, {"]"}) IN
         IF At(t, j) = "]" /\ At(t, j + 1) = "("
         THEN LET k == RunEnd(t, j + 2, {")"}) IN
              IF k > j + 2 /\ k <= Len(t) THEN k + 1 ELSE 0
         ELSE 0
    ELSE 0

\* ^#{1,6}\s+ under re.MULTILINE
HeadingMarkerEnd(t, i) ==
    IF AtLineStart(t, i) /\ t[i] = "#"
    THEN LET h == RunWhile(t, i, {"#"}) IN
         IF h - i <= 6 /\ SpaceEnd(t, h) > h THEN SpaceEnd(t, h) ELSE 0
    ELSE 0

\* ^[-*+]\s+ under re.MULTILINE
ListMarkerEnd(t, i) ==
    IF AtLineStart(t, i) /\ t[i] \in {"-", "*", "+"} /\ SpaceEnd(t, i + 1) > i + 1
    THEN SpaceEnd(t, i + 1)
    ELSE 0

\* ^\d+\.\s+ under re.MULTILINE
NumberMarkerEnd(t, i) ==
    IF AtLineStart(t, i) /\ t[i] \in Digits
    THEN LET d == RunWhile(t, i, Digits) IN
         IF At(t, d) = "." /\ SpaceEnd(t, d + 1) > d + 1
         THEN SpaceEnd(t, d + 1) ELSE 0
    ELSE 0

\* [*_~]
EmphasisEnd(t, i) == IF t[i] \in {"*", "_", "~"} THEN i + 1 ELSE 0

\* The ten re.sub calls of count_words_in_markdown, in order.
MatchEnd(k, t, i) ==
    CASE k = 1 -> WikilinkEnd(t, i)
      [] k = 2 -> FenceEnd(t, i)
      [] k = 3 -> BacktickEnd(t, i)
      [] k = 4 -> HtmlTagEnd(t, i)
      [] k = 5 -> LinkEnd(t, i)
      [] k = 6 -> ImageEnd(t, i)
      [] k = 7 -> HeadingMarkerEnd(t, i)
      [] k = 8 -> ListMarkerEnd(t, i)
      [] k = 9 -> NumberMarkerEnd(t, i)
      [] k = 10 -> EmphasisEnd(t, i)

\* The replacement: r'\1' for the link pattern, '' for the others.
Replacement(k, t, i) == IF k = 5 THEN LinkText(t, i) ELSE <<>>

\* The start of the leftmost match of pattern k at or after index i, 0 if none.
NextMatch(k, t, i) ==
    LET starts == {j \in i..Len(t) : MatchEnd(k, t, j) > j} IN
    IF starts = {} THEN 0 ELSE Least(starts)

\* re.sub(pattern k, replacement k, t), from index i on: the text up to the
\* leftmost match, the replacement, then the search goes on after the match.
RECURSIVE Sub(_, _, _)
Sub(k, t, i) ==
    LET j == NextMatch(k, t, i) IN
    IF j = 0 THEN SubSeq(t, i, Len(t))
    ELSE SubSeq(t, i, j - 1) \o Replacement(k, t, j) \o Sub(k, t, MatchEnd(k, t, j))

\* text.split(' ') without the empty strings: a line break is part of a word.
RECURSIVE Split_OnSpaceOnly(_)
Split_OnSpaceOnly(t) ==
    LET b == RunWhile(t, 1, {" "}) IN
    IF b > Len(t) THEN <<>>
    ELSE LET e == RunEnd(t, b, {" "}) IN
         <<SubSeq(t, b, e - 1)>> \o Split_OnSpaceOnly(DropFirst(t, e - 1))

\* text.split(): the maximal runs of characters that are no white space.
RECURSIVE Split(_)
Split(t) ==
    LET b == SpaceEnd(t, 1) IN
    IF b > Len(t) THEN <<>>
    ELSE LET e == WordEnd(t, b) IN
         <<SubSeq(t, b, e - 1)>> \o Split(DropFirst(t, e - 1))

-----------------------------------------------------------------------------
(* count_words_in_markdown *)

RemoveWikilinks(t) == Sub(1, t, 1)
RemoveFences(t) == Sub(2, t, 1)
RemoveBackticks(t) == Sub(3, t, 1)
RemoveHtmlTags(t) == Sub(4, t, 1)
ReplaceLinks(t) == Sub(5, t, 1)
RemoveImages(t) == Sub(6, t, 1)
RemoveHeadingMarkers(t) == Sub(7, t, 1)
RemoveListMarkers(t) == Sub(9, Sub(8, t, 1), 1)
RemoveEmphasis(t) == Sub(10, t, 1)

\* The text that is split into words: the substitutions in the code's order.
CleanMarkdown(t) ==
    RemoveEmphasis(RemoveListMarkers(RemoveHeadingMarkers(RemoveImages(
        ReplaceLinks(RemoveHtmlTags(RemoveBackticks(RemoveFences(
            RemoveWikilinks(t)))))))))

count_words_in_markdown(t) == Len(Split(CleanMarkdown(t)))

-----------------------------------------------------------------------------
(* The file system.  tree is a set of nodes [path, kind, text, readable,   *)
(* ord]; a path is the sequence of its components below the current        *)
(* directory, <<>> being the current directory itself, and ord is the      *)
(* place of the node in the listing of its directory (os.scandir), which   *)
(* the file system decides.  The name of a node holds no path separator.   *)

MdSuffix == <<".", "m", "d">>
Dot == <<".">>

\* Path(arg).parts: the components of arg between '/', without the empty
\* ones and without '.'.  The paths of the model are relative and hold no
\* '..'.
RECURSIVE PathOf(_)
PathOf(arg) ==
    IF arg = <<>> THEN <<>>
    ELSE LET e == RunEnd(arg, 1, {"/"})
             part == SubSeq(arg, 1, e - 1)
         IN  (IF part = <<>> \/ part = Dot THEN <<>> ELSE <<part>>)
             \o PathOf(DropFirst(arg, e))

\* str(path)
RECURSIVE PathString(_)
PathString(p) ==
    IF p = <<>> THEN Dot
    ELSE IF Len(p) = 1 THEN p[1]
    ELSE p[1] \o <<"/">> \o PathString(Tail(p))

NodeAt(fs, p) == CHOOSE n \in fs : n.path = p
IsDir(fs, p) == p = <<>> \/ \E n \in fs : n.path = p /\ n.kind = "dir"
IsFile(fs, p) == \E n \in fs : n.path = p /\ n.kind = "file"

IsPrefix(p, q) == Len(p) <= Len(q) /\ SubSeq(q, 1, Len(p)) = p
Parent(p) == SubSeq(p, 1, Len(p) - 1)
Name(p) == p[Len(p)]

\* The k-th number of a set of numbers, counted from 1.
Nth(S, k) == CHOOSE x \in S : Cardinality({y \in S : y < x}) = k - 1

\* fnmatch.translate, the bracket expression opened at index i of pat: the
\* index of the ']' that closes it, 0 when none does and '[' stands for itself.
BracketEnd(pat, i) ==
    LET j1 == IF At(pat, i + 1) = "!" THEN i + 2 ELSE i + 1
        j2 == IF At(pat, j1) = "]" THEN j1 + 1 ELSE j1
        e == RunEnd(pat, j2, {"]"})
    IN  IF e > Len(pat) THEN 0 ELSE e

\* The hyphens of the text of a bracket expression that fnmatch.translate
\* finds from index k on: after one at h the search goes on at h + 3.
RECURSIVE RangeHyphens(_, _)
RangeHyphens(stuff, k) ==
    LET h == RunEnd(stuff, k, {"-"}) IN
    IF h > Len(stuff) THEN {} ELSE {h} \cup RangeHyphens(stuff, h + 3)

\* Whether c matches the bracket expression whose text is stuff: a leading
\* '!' negates; a hyphen makes a range unless it is first or last; a range
\* whose ends are out of order is dropped; the other characters stand for
\* themselves.
InBracket(stuff, c) ==
    LET negated == stuff[1] = "!"
        first == IF negated THEN 2 ELSE 1
        ops == RangeHyphens(stuff, first + 1) \ {Len(stuff)}
        literal == {i \in first..Len(stuff) :
                        i \notin ops /\ (i - 1) \notin ops /\ (i + 1) \notin ops}
        member == \/ \E i \in literal : stuff[i] = c
                  \/ \E h \in ops : /\ Ord(stuff[h - 1]) <= Ord(c)
                                    /\ Ord(c) <= Ord(stuff[h + 1])
    IN  member # negated

\* fnmatch: whether pat from index i on matches name from index j on.  * is
\* any run of characters, ? any one character, [...] one character of a set.
RECURSIVE FnMatchFrom(_, _, _, _)
FnMatchFrom(pat, i, name, j) ==
    IF i > Len(pat) THEN j > Len(name)
    ELSE IF pat[i] = "*"
    THEN \E k \in j..(Len(name) + 1) : FnMatchFrom(pat, i + 1, name, k)
    ELSE IF j > Len(name) THEN FALSE
    ELSE IF pat[i] = "?" THEN FnMatchFrom(pat, i + 1, name, j + 1)
    ELSE IF pat[i] = "[" /\ BracketEnd(pat, i) > 0
    THEN /\ InBracket(SubSeq(pat, i + 1, BracketEnd(pat, i) - 1), name[j])
         /\ FnMatchFrom(pat, BracketEnd(pat, i) + 1, name, j + 1)
    ELSE pat[i] = name[j] /\ FnMatchFrom(pat, i + 1, name, j + 1)

\* The match of one component of a pattern against a name.
FnMatch(pat, name) == FnMatchFrom(pat, 1, name, 1)

HasDoubleStar(pat) == \E i \in 1..(Len(pat) - 1) : pat[i] = "*" /\ pat[i + 1] = "*"
DoubleStar == <<"*", "*">>
IsWildcard(pat) == \E i \in DOMAIN pat : pat[i] \in {"*", "?", "["}

\* if not filename.endswith('.md'): filename = f"{filename}.md"
NormalizeName(name) == IF EndsWith(name, MdSuffix) THEN name ELSE name \o MdSuffix

\* os.scandir(d): the entries of directory d in the order the file system
\* lists them.
Entries(fs, d) ==
    LET inside == {n \in fs : n.path # <<>> /\ Parent(n.path) = d}
        places == {n.ord : n \in inside}
    IN  [k \in 1..Cardinality(inside) |->
            CHOOSE n \in inside : n.ord = Nth(places, k)]

\* _RecursiveWildcardSelector._iterate_directories: a directory, then its
\* subdirectories, each followed by its own.
RECURSIVE IterateDirectories(_, _)
IterateDirectories(fs, d) ==
    LET es == Entries(fs, d) IN
    <<d>> \o Concat([k \in DOMAIN es |->
                        IF es[k].kind = "dir" THEN IterateDirectories(fs, es[k].path)
                        ELSE <<>>])

\* A sequence without the later copies of its elements.
Dedupe(s) ==
    LET keep == {i \in DOMAIN s : \A j \in 1..(i - 1) : s[j] # s[i]} IN
    [k \in 1..Cardinality(keep) |-> s[Nth(keep, k)]]

\* The selectors of pathlib: the paths below directory d that match the
\* components of a pattern, in the order they are yielded.  '**' is any chain
\* of directories, a component with *, ? or [ is matched against the entries
\* of the directory, any other component names one entry.
RECURSIVE SelectFrom(_, _, _)
SelectFrom(fs, d, parts) ==
    IF parts = <<>> THEN <<d>>
    ELSE LET pat == Head(parts)
             child_parts == Tail(parts)
             dironly == child_parts # <<>>
         IN  IF pat = DoubleStar
             THEN LET dirs == IterateDirectories(fs, d) IN
                  Dedupe(Concat([k \in DOMAIN dirs |->
                                    SelectFrom(fs, dirs[k], child_parts)]))
             ELSE IF IsWildcard(pat)
             THEN LET es == Entries(fs, d) IN
                  Concat([k \in DOMAIN es |->
                             IF (dironly => es[k].kind = "dir")
                                /\ FnMatch(pat, Name(es[k].path))
                             THEN SelectFrom(fs, es[k].path, child_parts)
                             ELSE <<>>])
             ELSE LET path == d \o <<pat>> IN
                  IF (IF dironly THEN IsDir(fs, path)
                      ELSE IsDir(fs, path) \/ IsFile(fs, path))
                  THEN SelectFrom(fs, path, child_parts)
                  ELSE <<>>

\* root_path.rglob(pattern) for a pattern that is valid.
rglob(fs, root_path, pattern) ==
    IF IsDir(fs, root_path) THEN SelectFrom(fs, root_path, <<DoubleStar>> \o PathOf(pattern))
    ELSE <<>>

NoneResult == [kind |-> "none", path |-> <<>>]
Raised == [kind |-> "raise", path |-> <<>>]
Located(p) == [kind |-> "path", path |-> p]

\* find_markdown_file: a path, None, or the exception rglob raises for a
\* pattern that holds ** inside a component.
find_markdown_file(fs, root, name) ==
    LET fn == NormalizeName(name)
        root_path == PathOf(root)
        file_path == root_path \o PathOf(fn)
        invalid == \E k \in DOMAIN PathOf(fn) :
                       HasDoubleStar(PathOf(fn)[k]) /\ PathOf(fn)[k] # DoubleStar
    IN  IF IsFile(fs, file_path) THEN Located(file_path)
        ELSE IF invalid THEN Raised
        ELSE LET files == SelectSeq(rglob(fs, root_path, fn),
                                    LAMBDA p : IsFile(fs, p))
             IN  IF files = <<>> THEN NoneResult ELSE Located(files[1])

\* read_file_contents: the text as a text-mode file reads it, trimmed, or the
\* placeholder when open fails.  A file that is not readable fails with
\* PermissionError.
ErrorReadingPrefix ==
    <<"[", "E", "r", "r", "o", "r", " ", "r", "e", "a", "d", "i", "n", "g", " ",
      "f", "i", "l", "e", ":", " ">>
PermissionDenied(p) ==
    <<"[", "E", "r", "r", "n", "o", " ", "1", "3", "]", " ", "P", "e", "r", "m",
      "i", "s", "s", "i", "o", "n", " ", "d", "e", "n", "i", "e", "d", ":", " ", "'">>
    \o PathString(p) \o <<"'">>
read_file_contents(fs, p) ==
    IF NodeAt(fs, p).readable THEN Strip(UniversalNewlines(NodeAt(fs, p).text))
    ELSE ErrorReadingPrefix \o PermissionDenied(p) \o <<"]">>

\* name.lower()
Lower(s) == [i \in 1..Len(s) |-> LowerChar(s[i])]

\* a <= b for two strings, as Python compares them.
RECURSIVE StrLeq(_, _)
StrLeq(a, b) ==
    IF a = <<>> THEN TRUE
    ELSE IF b = <<>> THEN FALSE
    ELSE IF Ord(Head(a)) # Ord(Head(b)) THEN Ord(Head(a)) < Ord(Head(b))
    ELSE StrLeq(Tail(a), Tail(b))

\* find_all_markdown_files_in_folder: folder.glob('*.md'), regular files only,
\* sorted by the lowered name; the sort is stable, so files whose keys are
\* equal stay in the order the directory lists them.
FolderMdFiles(fs, folder) ==
    {n \in fs : /\ n.kind = "file"
                /\ Parent(n.path) = folder
                /\ EndsWith(Name(n.path), MdSuffix)}
SortKey(n) == Lower(Name(n.path))
SortedBefore(m, n) ==
    IF SortKey(m) = SortKey(n) THEN m.ord < n.ord
    ELSE StrLeq(SortKey(m), SortKey(n))
find_all_markdown_files_in_folder(fs, folder) ==
    IF ~IsDir(fs, folder) THEN <<>>
    ELSE LET files == FolderMdFiles(fs, folder) IN
         [k \in 1..Cardinality(files) |->
             (CHOOSE n \in files :
                  Cardinality({m \in files : m # n /\ SortedBefore(m, n)}) = k - 1).path]

-----------------------------------------------------------------------------
(* parse2.main: the steps of one item *)

\* cleaned_item: the item without a leading '[ ] ', '[x] ' or '[X] '.
StripCheckbox(item) ==
    IF StartsWith(item, <<"[", " ", "]", " ">>) THEN DropFirst(item, 4)
    ELSE IF StartsWith(item, <<"[", "x", "]", " ">>)
            \/ StartsWith(item, <<"[", "X", "]", " ">>) THEN DropFirst(item, 4)
    ELSE item

\* extract_wikilink: re.match of ^\[\[([^\]|]+)(?:\|[^\]]+)?\]\]$ on text.strip().
extract_wikilink(t) ==
    LET s == Strip(t) IN
    IF s # <<>> /\ WikilinkEnd(s, 1) = Len(s) + 1
    THEN [link_target |-> SubSeq(s, 3, WikilinkTargetEnd(s, 1) - 1), is_wikilink |-> TRUE]
    ELSE [link_target |-> t, is_wikilink |-> FALSE]

Separator == <<"-", "-", "-", NL, NL>>
BackReference(link_target) == <<"[", "[">> \o link_target \o <<"]", "]">> \o <<NL, NL>>
LinkNotFoundPrefix ==
    <<"[", "L", "i", "n", "k", " ", "n", "o", "t", " ", "f", "o", "u", "n", "d", ":", " ">>

\* What a wikilink whose file was located writes to output_buffer.
DisplayFound_AlwaysNormal(final, link_target, content) ==
    Separator \o BackReference(link_target) \o content \o <<NL, NL>>
DisplayFound(final, link_target, content) ==
    IF final THEN content \o <<NL>>
    ELSE Separator \o BackReference(link_target) \o content \o <<NL, NL>>

\* What a wikilink whose file was not located writes to output_buffer.
DisplayMissing(link_target) == LinkNotFoundPrefix \o link_target \o <<"]", NL>>

\* What an item that is no wikilink writes to output_buffer.
DisplayPlain(final, cleaned_item) ==
    IF final THEN cleaned_item \o <<NL>> ELSE cleaned_item \o <<NL, NL>>

\* What an item adds to word_count_buffer: kind is "found", "missing" or "plain".
CountedText_Everything(kind, content) == content \o <<NL>>
CountedText_NoNewline(kind, content) == IF kind = "found" THEN content ELSE <<>>
CountedText(kind, content) == IF kind = "found" THEN content \o <<NL>> ELSE <<>>

\* All the items of a file, in the order the nested loops visit them.
RECURSIVE AllItems(_)
AllItems(hs) == IF hs = <<>> THEN <<>> ELSE Head(hs).items \o AllItems(Tail(hs))

FinalFlag == <<"-", "-", "f", "i", "n", "a", "l">>

pureVars == <<lines, text, filename, found>>

-----------------------------------------------------------------------------
(* parse2.main *)

\* An exception nobody catches: the traceback goes to stderr, nothing that was
\* buffered is printed, and the exit status is 1.
Crash ==
    /\ pc' = "crashed"
    /\ exit_code' = 1
    /\ UNCHANGED <<files_to_process, items_todo, output_buffer, word_count_buffer,
                   word_count, stdout, processed, headings_with_items>>

\* print(message); sys.exit(1)
ErrorExit(message) ==
    /\ pc' = "exit"
    /\ exit_code' = 1
    /\ stdout' = Append(stdout, [kind |-> message])
    /\ UNCHANGED <<files_to_process, items_todo, output_buffer, word_count_buffer,
                   word_count, processed, headings_with_items>>

\* Lines 191-206: the usage exit, input_arg, final_mode, root_folder.
ArgsWithoutFlag(args) == SelectSeq(DropFirst(args, 2), LAMBDA a : a # FinalFlag)
ParseArgs ==
    /\ pc = "start"
    /\ IF Len(argv) < 2
       THEN /\ ErrorExit("usage")
            /\ UNCHANGED <<input_arg, final_mode, root_folder>>
       ELSE /\ input_arg' = argv[2]
            /\ final_mode' = (FinalFlag \in Range(argv))
            /\ root_folder' = IF ArgsWithoutFlag(argv) # <<>>
                              THEN ArgsWithoutFlag(argv)[1] ELSE Dot
            /\ pc' = "resolve"
            /\ UNCHANGED <<files_to_process, items_todo, output_buffer,
                           word_count_buffer, word_count, stdout, exit_code,
                           processed, headings_with_items>>
    /\ UNCHANGED <<argv, tree, pureVars, minVars>>

\* files_to_process = md_files, or the exit when the folder holds none.
SetFiles(md_files) ==
    IF md_files = <<>> THEN ErrorExit("no_markdown_files")
    ELSE /\ files_to_process' = md_files
         /\ pc' = "loop"
         /\ UNCHANGED <<items_todo, output_buffer, word_count_buffer, word_count,
                        stdout, exit_code, processed, headings_with_items>>

\* Lines 209-235: a folder below the root, a single file, or a folder by its
\* own path.
Resolve ==
    /\ pc = "resolve"
    /\ LET input_path == PathOf(root_folder) \o PathOf(input_arg) IN
       IF IsDir(tree, input_path)
       THEN SetFiles(find_all_markdown_files_in_folder(tree, input_path))
       ELSE LET file_path == find_markdown_file(tree, root_folder, input_arg) IN
            IF file_path.kind = "raise" THEN Crash
            ELSE IF file_path.kind = "path" THEN SetFiles(<<file_path.path>>)
            ELSE IF IsDir(tree, PathOf(input_arg))
            THEN SetFiles(find_all_markdown_files_in_folder(tree, PathOf(input_arg)))
            ELSE ErrorExit("not_found")
    /\ UNCHANGED <<argv, tree, input_arg, final_mode, root_folder, pureVars, minVars>>

\* Line 244: extract_list_items_by_heading(file_path), whose open() is outside
\* any try: a file that cannot be read raises out of main.
ProcessFile ==
    /\ pc = "loop"
    /\ items_todo = <<>>
    /\ files_to_process # <<>>
    /\ LET file_path == Head(files_to_process) IN
       IF IsFile(tree, file_path) /\ NodeAt(tree, file_path).readable
       THEN /\ headings_with_items' =
                   extract_list_items_by_heading(NodeAt(tree, file_path).text)
            /\ items_todo' = AllItems(headings_with_items')
            /\ files_to_process' = Tail(files_to_process)
            /\ UNCHANGED <<pc, output_buffer, word_count_buffer, word_count, stdout,
                           exit_code, processed>>
       ELSE /\ Crash
    /\ UNCHANGED <<argv, tree, input_arg, final_mode, root_folder, pureVars, minVars>>

\* The three ways an item is written, lines 260-283.
WriteItem(kind, shown, content, display) ==
    /\ output_buffer' = output_buffer \o display
    /\ word_count_buffer' = word_count_buffer \o CountedText(kind, content)
    /\ processed' = Append(processed, [kind |-> kind, shown |-> shown, content |-> content])
    /\ items_todo' = Tail(items_todo)
    /\ UNCHANGED <<pc, files_to_process, word_count, stdout, exit_code,
                   headings_with_items>>

\* Lines 249-283: one pass of the loop over the items.
ProcessItem ==
    /\ pc = "loop"
    /\ items_todo # <<>>
    /\ LET cleaned_item == StripCheckbox(Head(items_todo))
           w == extract_wikilink(cleaned_item)
       IN  IF w.is_wikilink
           THEN LET linked_file == find_markdown_file(tree, root_folder, w.link_target) IN
                IF linked_file.kind = "raise" THEN Crash
                ELSE IF linked_file.kind = "path"
                THEN LET content == read_file_contents(tree, linked_file.path) IN
                     WriteItem("found", w.link_target, content,
                               DisplayFound(final_mode, w.link_target, content))
                ELSE WriteItem("missing", w.link_target, <<>>,
                               DisplayMissing(w.link_target))
           ELSE WriteItem("plain", cleaned_item, <<>>,
                          DisplayPlain(final_mode, cleaned_item))
    /\ UNCHANGED <<argv, tree, input_arg, final_mode, root_folder, pureVars, minVars>>

\* Lines 286-293: the word count of the counting buffer, then the two prints.
Finish ==
    /\ pc = "loop"
    /\ items_todo = <<>>
    /\ files_to_process = <<>>
    /\ word_count' = count_words_in_markdown(word_count_buffer)
    /\ stdout' = stdout \o <<[kind |-> "word_count", n |-> word_count'],
                             [kind |-> "output", text |-> output_buffer]>>
    /\ exit_code' = 0
    /\ pc' = "done"
    /\ UNCHANGED <<argv, tree, input_arg, final_mode, root_folder, files_to_process,
                   items_todo, output_buffer, word_count_buffer, processed,
                   headings_with_items, pureVars, minVars>>

-----------------------------------------------------------------------------
(* The inputs of the model *)

MaxLines == 3
MaxArgs == 3
MaxSumFrags == 1

SeqsUpTo(pool, n) == UNION {[1..k -> pool] : k \in 0..n}

File(p, t) == [path |-> p, kind |-> "file", text |-> t, readable |-> TRUE, ord |-> 0]
Unreadable(p, t) == [path |-> p, kind |-> "file", text |-> t, readable |-> FALSE, ord |-> 0]
Dir(p) == [path |-> p, kind |-> "dir", text |-> <<>>, readable |-> TRUE, ord |-> 0]

\* The nodes of a list as the file system lists them.  Each directory is
\* listed on its own: the directories of reversed list their entries in the
\* reverse order of the list, the others in the order of the list.
Listed(nodes, reversed) ==
    {[nodes[i] EXCEPT !.ord = IF Parent(nodes[i].path) \in reversed
                              THEN Len(nodes) + 1 - i ELSE i] :
        i \in 1..Len(nodes)}

\* The names and the texts of the files of the model.
NestedText == <<"n", "e", "s", "t", "e", "d", " ", "t", "e", "x", "t", " ", "h", "e", "r", "e">>
Hello == <<"H", "e", "l", "l", "o", " ", "w", "o", "r", "l", "d">>
BText == <<"\f", "b", "1", " ", "b", "2", "\r", NL, "b", "3", "\r", NL>>
Secret == <<"s", "e", "c", "r", "e", "t">>
ThreeLinks == <<"#", "#", " ", "H", NL, "-", " ", "[", "[", "A", "]", "]", NL, "-", " ", "[", "[", "B", "]", "]", NL, "-", " ", "[", "[", "A", "]", "]", NL>>
VSource == <<"#", "#", " ", "V", "\r", "-", " ", "[", "[", "A", "]", "]", "\r", NL, "-", "U+00A0", "x", "\r", NL,  "-", " ", "[", "[", "B", "]", "]", "\t", NL>>
LinkA == <<"#", "#", " ", "H", NL, "-", " ", "[", "[", "A", "]", "]", NL>>
PlainC == <<"#", "#", " ", "H", NL, "-", " ", "c", NL>>
LinkM == <<"#", "#", " ", "H", NL, "-", " ", "[", "[", "M", "]", "]">>
SubDir2 == <<"s", "u", "b", "2">>
SubDir == <<"s", "u", "b">>
DeepDir == <<"d", "e", "e", "p">>
InDir == <<"i", "n">>
n_md == <<"n", ".", "m", "d">>
A_md == <<"A", ".", "m", "d">>
U_md == <<"U", ".", "m", "d">>
B_md == <<"B", ".", "m", "d">>
a_md == <<"a", ".", "m", "d">>
C_md == <<"C", ".", "m", "d">>
b_md == <<"b", ".", "m", "d">>
P_md == <<"P", ".", "m", "d">>
Q_md == <<"Q", ".", "m", "d">>


Prog == <<"p">>

\* The listing orders of the runs.  The names the runs look for hold no
\* wildcard but '**', so a search ends in the first directory, in the order
\* of the walk, that holds the name; sub and v are the only directories of
\* the root with a file of the same name (B.md), and no two files of a folder
\* have the same sort key: which of sub and v the root lists first is all
\* that the order decides.
WorldOrders == {{}, {<<>>}}
\* The directory the runs start in.  n.md is the source file; A.md is at the
\* root and again below sub; B.md is only below the root, twice; U.md cannot be
\* read; no M.md exists; in, k and e are folders, v another root.
World(n_text, a_text, b_text, reversed) ==
    Listed(<<
      File(<<n_md>>, n_text),
      File(<<A_md>>, a_text),
      Unreadable(<<U_md>>, Secret),
      Dir(<<SubDir>>),
      File(<<SubDir, B_md>>, b_text),
      File(<<SubDir, A_md>>, NestedText),
      Dir(<<SubDir, DeepDir>>),
      File(<<SubDir, DeepDir, B_md>>, <<"d", "b">>),
      Dir(<<InDir>>),
      File(<<InDir, a_md>>, LinkA),
      File(<<InDir, C_md>>, PlainC),
      File(<<InDir, b_md>>, LinkM),
      Dir(<<<<"k">>>>),
      File(<<<<"k">>, a_md>>, LinkA),
      Unreadable(<<<<"k">>, b_md>>, LinkM),
      Dir(<<<<"e">>>>),
      Dir(<<<<"v">>>>),
      File(<<<<"v">>, n_md>>, VSource),
      File(<<<<"v">>, B_md>>, <<"v", "b">>) >>, reversed)

\* The lines the source file n.md is made of.
LinePool ==
    { <<"#", "#", " ", "H">>,
      <<"#", "#">>,
      <<"-", " ", "[", "[", "A", "]", "]">>,
      <<"-", " ", "[", "x", "]", " ", "[", "[", "B", "|", "d", "]", "]">>,
      <<"-", " ", "[", "[", "M", "]", "]">>,
      <<"-", " ", "[", "[", "U", "]", "]">>,
      <<"-", " ", "p", " ", "q">>,
      <<"*", " ", "[", " ", "]", " ", "t">>,
      <<"-", " ", "[", "[", "*", "*", "]", "]">> }

\* The line breaks of a text file, and the lines of a file each followed by br.
LineBreaks == {<<NL>>, <<"\r">>, <<"\r", NL>>}
RECURSIVE JoinWith(_, _)
JoinWith(ls, br) == IF ls = <<>> THEN <<>> ELSE Head(ls) \o br \o JoinWith(Tail(ls), br)

\* The texts of the linked files A.md and sub/B.md when they vary.
SumFrags ==
    { <<"a", " ", "b">>,
      <<"<", "c">>,
      <<"d", ">">>,
      <<"#">>,
      <<"[", "e">>,
      <<"]", "(", "u", ")">>,
      <<"-", " ", "f">> }
SumTexts == {Concat(fs) : fs \in SeqsUpTo(SumFrags, MaxSumFrags)}

ArgPool == {FinalFlag, <<"n">>, <<"i", "n">>, <<"v">>, <<"e">>, <<"k">>, <<"z", "z">>}

\* The state before a run, apart from its inputs.
BuffersBlank ==
    /\ files_to_process = <<>>
    /\ items_todo = <<>>
    /\ output_buffer = <<>>
    /\ word_count_buffer = <<>>
    /\ word_count = -1
    /\ stdout = <<>>
    /\ exit_code = -1
    /\ processed = <<>>
    /\ headings_with_items = <<>>
MinBlank ==
    /\ min_pc = "start"
    /\ min_headings_with_items = <<>>
    /\ min_items = <<>>
    /\ min_out = <<>>
Blank ==
    /\ pc = "start"
    /\ final_mode = FALSE
    /\ input_arg = <<>>
    /\ root_folder = <<>>
    /\ BuffersBlank
    /\ MinBlank
    /\ lines = <<>>
    /\ text = <<>>
    /\ filename = <<>>
    /\ found = NoneResult

\* The source file varies; the run is Normal, Final, or Final with the root given.
InitFiles ==
    /\ argv \in {<<Prog, <<"n">>>>, <<Prog, <<"n">>, Dot>>, <<Prog, <<"n">>, Dot, FinalFlag>>}
    /\ \E ls \in SeqsUpTo(LinePool, MaxLines), reversed \in WorldOrders :
           tree = World(JoinWith(ls, <<NL>>), Hello, BText, reversed)
    /\ Blank

\* The argument list varies.
InitArgs ==
    /\ \E args \in SeqsUpTo(ArgPool, MaxArgs) : argv = <<Prog>> \o args
    /\ \E reversed \in WorldOrders : tree = World(ThreeLinks, Hello, BText, reversed)
    /\ Blank

\* The texts of the two linked files vary.
InitSum ==
    /\ argv = <<Prog, <<"n">>>>
    /\ \E a \in SumTexts, b \in SumTexts, reversed \in WorldOrders : tree = World(ThreeLinks, a, b, reversed)
    /\ Blank

\* The file system of the runs of find_markdown_file: the directories sub,
\* sub/deep and sub2 below the root, and any of the files of LocateFiles, each
\* directory listed in any order.
MaxName == 2
LocateFrags ==
    { <<"P">>, <<"Q">>, <<"*">>, <<"?">>,
      <<"[", "P", "Q", "]">>, <<"[", "!", "P", "]">>, <<"[", "O", "-", "P", "]">>,
      <<"s", "u", "b", "/">> }
LocateNames ==
    LET stems == {Concat(fs) : fs \in SeqsUpTo(LocateFrags, MaxName)} \ {<<>>} IN
    stems \cup {st \o MdSuffix : st \in stems}
LocateDirs == <<Dir(<<SubDir>>), Dir(<<SubDir, DeepDir>>), Dir(<<SubDir2>>)>>
LocateFiles ==
    << File(<<P_md>>, <<"r">>),
       File(<<SubDir, P_md>>, <<"s">>),
       File(<<SubDir, DeepDir, P_md>>, <<"d">>),
       File(<<SubDir2, P_md>>, <<"t">>),
       File(<<SubDir, Q_md>>, <<"q">>),
       Dir(<<Q_md>>) >>
\* The ways a file system can list a set of entries: each gets a place.
Orders(entries) ==
    {f \in [entries -> 1..Cardinality(entries)] :
        \A a, b \in entries : a # b => f[a] # f[b]}

\* The trees a set of nodes can be, every directory of dirs listed on its own
\* in any order.
RECURSIVE Listings(_, _)
Listings(nodes, dirs) ==
    IF dirs = {} THEN {{}}
    ELSE LET d == CHOOSE x \in dirs : TRUE
             inside == {n \in nodes : Parent(n.path) = d}
         IN  {{[n EXCEPT !.ord = f[n]] : n \in inside} \cup rest :
                 f \in Orders(inside), rest \in Listings(nodes, dirs \ {d})}

LocateTrees ==
    UNION {Listings(Range(LocateDirs) \cup files,
                    {<<>>} \cup {n.path : n \in {m \in Range(LocateDirs) \cup files : m.kind = "dir"}}) :
              files \in SUBSET Range(LocateFiles)}

\* The lines of the runs of extract_list_items_by_heading.
MaxSegLines == 4
SegLinePool ==
    { <<"#", "#", " ", "T">>,
      <<"#", "#">>,
      <<"#", "#", "#">>,
      <<" ", "#", "#", " ", "a", " ", "b", " ">>,
      <<"-", " ", "i">>,
      <<"*", " ", " ", "j", " ">>,
      <<"-", "k">>,
      <<"\f", "-", " ", "m", "U+00A0">> }

\* The texts of the runs of count_words_in_markdown.
MaxFrags == 3
CountFrags ==
    { <<"a">>,
      <<" ">>,
      <<NL>>,
      <<"#", " ">>,
      <<"-", " ">>,
      <<"*">>,
      <<"!", "[">>,
      <<"]", "(", "u", ")">>,
      <<"<">>,
      <<">">>,
      <<"[", "[">>,
      <<"]", "]">>,
      <<BT>>,
      <<"\f">>,
      <<"U+00A0">>,
      <<"1", ".", " ">> }
CountTexts == {Concat(fs) : fs \in SeqsUpTo(CountFrags, MaxFrags)}

Init == InitFiles \/ InitArgs \/ InitSum

Next == ParseArgs \/ Resolve \/ ProcessFile \/ ProcessItem \/ Finish

Spec == Init /\ [][Next]_vars

-----------------------------------------------------------------------------
(* parse_headings.main *)

MinUsage ==
    <<"U", "s", "a", "g", "e", ":", " ", "p", "y", "t", "h", "o", "n", " ", "p", "a",
      "r", "s", "e", "_", "h", "e", "a", "d", "i", "n", "g", "s", ".", "p", "y", " ",
      "<", "f", "i", "l", "e", "n", "a", "m", "e", ">", " ", "[", "r", "o", "o", "t",
      "_", "f", "o", "l", "d", "e", "r", "]", NL, "E", "x", "a", "m", "p", "l", "e",
      ":", " ", "p", "y", "t", "h", "o", "n", " ", "p", "a", "r", "s", "e", "_", "h",
      "e", "a", "d", "i", "n", "g", "s", ".", "p", "y", " ", "'", "k", "a", "n", "b",
      "a", "n", " ", "1", "'", NL>>
MinNoItems ==
    <<"N", "o", " ", "l", "i", "s", "t", " ", "i", "t", "e", "m", "s", " ", "f", "o",
      "u", "n", "d", " ", "i", "n", " ", "t", "h", "e", " ", "f", "i", "l", "e", ".",
      NL>>
MinNotFound(name, root) ==
    <<"E", "r", "r", "o", "r", ":", " ", "F", "i", "l", "e", " ", "'">> \o name
    \o <<".", "m", "d", "'", " ", "n", "o", "t", " ", "f", "o", "u", "n", "d", " ", "i", "n", " ", "'">>
    \o root \o <<"'", NL>>

\* filename = sys.argv[1]; root_folder = sys.argv[2] if len(sys.argv) > 2 else '.'
MinFilename == argv[2]
MinRootFolder == IF Len(argv) > 2 THEN argv[3] ELSE Dot

MinEnd(state, printed) ==
    /\ min_pc' = state
    /\ min_out' = min_out \o printed
    /\ UNCHANGED <<min_headings_with_items, min_items>>

\* Lines 120-138 and 165-166: the arguments, the file, its headings.
MinStart ==
    /\ min_pc = "start"
    /\ pc \in {"done", "exit", "crashed"}
    /\ IF Len(argv) < 2 THEN MinEnd("exit", MinUsage)
       ELSE LET file_path == find_markdown_file(tree, MinRootFolder, MinFilename) IN
            IF file_path.kind = "raise" THEN MinEnd("crashed", <<>>)
            ELSE IF file_path.kind = "none"
            THEN MinEnd("exit", MinNotFound(MinFilename, MinRootFolder))
            ELSE IF ~NodeAt(tree, file_path.path).readable
            THEN MinEnd("crashed", <<>>)
            ELSE LET hs == min_extract_list_items_by_heading(
                               NodeAt(tree, file_path.path).text) IN
                 IF hs = <<>> THEN MinEnd("done", MinNoItems)
                 ELSE /\ min_headings_with_items' = hs
                      /\ min_items' = AllItems(hs)
                      /\ min_pc' = "loop"
                      /\ UNCHANGED min_out
    /\ UNCHANGED <<pc, mainVars, headings_with_items, pureVars>>

\* What print() writes for one item, lines 154-164.
MinPrinted_NormalMode(item_kind, shown, content) ==
    IF item_kind = "found" THEN DisplayFound(FALSE, shown, content)
    ELSE IF item_kind = "missing" THEN DisplayMissing(shown)
    ELSE DisplayPlain(FALSE, shown)
MinPrinted(item_kind, shown, content) ==
    IF item_kind = "found" THEN content \o <<NL>>
    ELSE IF item_kind = "missing" THEN LinkNotFoundPrefix \o shown \o <<"]", NL>>
    ELSE shown \o <<NL>>

\* Lines 143-164: one pass of the loop over the items.
MinItem ==
    /\ min_pc = "loop"
    /\ min_items # <<>>
    /\ LET cleaned_item == StripCheckbox(Head(min_items))
           w == extract_wikilink(cleaned_item)
       IN  IF w.is_wikilink
           THEN LET linked_file == find_markdown_file(tree, MinRootFolder, w.link_target) IN
                IF linked_file.kind = "raise"
                THEN /\ min_pc' = "crashed"
                     /\ UNCHANGED <<min_out, min_items>>
                ELSE /\ min_out' = min_out \o
                            IF linked_file.kind = "path"
                            THEN MinPrinted("found", w.link_target,
                                            read_file_contents(tree, linked_file.path))
                            ELSE MinPrinted("missing", w.link_target, <<>>)
                     /\ min_items' = Tail(min_items)
                     /\ UNCHANGED min_pc
           ELSE /\ min_out' = min_out \o MinPrinted("plain", cleaned_item, <<>>)
                /\ min_items' = Tail(min_items)
                /\ UNCHANGED min_pc
    /\ UNCHANGED <<pc, mainVars, headings_with_items, pureVars, min_headings_with_items>>

\* The end of main.
MinFinish ==
    /\ min_pc = "loop"
    /\ min_items = <<>>
    /\ min_pc' = "done"
    /\ UNCHANGED <<pc, mainVars, headings_with_items, pureVars,
                   min_headings_with_items, min_items, min_out>>

NextMin == Next \/ MinStart \/ MinItem \/ MinFinish

\* parse2.py, then parse_headings.py, on the same arguments and files.
SpecMin == Init /\ [][NextMin]_vars

-----------------------------------------------------------------------------
(* The functions on their own *)

InitSeg ==
    /\ pc = "call"
    /\ \E ls \in SeqsUpTo(SegLinePool, MaxSegLines), br \in LineBreaks :
           text = JoinWith(ls, br)
    /\ argv = <<Prog>> /\ tree = {}
    /\ final_mode = FALSE /\ input_arg = <<>> /\ root_folder = <<>>
    /\ BuffersBlank /\ MinBlank
    /\ lines = <<>> /\ filename = <<>> /\ found = NoneResult

ExtractCall ==
    /\ pc = "call"
    /\ lines' = SplitLines(text)
    /\ headings_with_items' = extract_list_items_by_heading(text)
    /\ min_headings_with_items' = min_extract_list_items_by_heading(text)
    /\ pc' = "returned"
    /\ UNCHANGED <<mainVars, text, filename, found, min_pc, min_items, min_out>>

SpecSeg == InitSeg /\ [][ExtractCall]_vars

InitCount ==
    /\ pc = "call"
    /\ text \in CountTexts
    /\ argv = <<Prog>> /\ tree = {}
    /\ final_mode = FALSE /\ input_arg = <<>> /\ root_folder = <<>>
    /\ BuffersBlank /\ MinBlank
    /\ lines = <<>> /\ filename = <<>> /\ found = NoneResult

CountCall ==
    /\ pc = "call"
    /\ word_count' = count_words_in_markdown(text)
    /\ pc' = "returned"
    /\ UNCHANGED <<argv, tree, final_mode, input_arg, root_folder, files_to_process,
                   items_todo, output_buffer, word_count_buffer, stdout, exit_code,
                   processed, headings_with_items, pureVars, minVars>>

SpecCount == InitCount /\ [][CountCall]_vars

InitLocate ==
    /\ pc = "call"
    /\ root_folder \in {Dot, <<".", "/", "s", "u", "b", "/">>}
    /\ tree \in LocateTrees
    /\ filename \in LocateNames
    /\ argv = <<Prog>>
    /\ final_mode = FALSE /\ input_arg = <<>>
    /\ BuffersBlank /\ MinBlank
    /\ lines = <<>> /\ text = <<>> /\ found = NoneResult

LocateCall ==
    /\ pc = "call"
    /\ found' = find_markdown_file(tree, root_folder, filename)
    /\ pc' = "returned"
    /\ UNCHANGED <<mainVars, headings_with_items, lines, text, filename, minVars>>

SpecLocate == InitLocate /\ [][LocateCall]_vars

-----------------------------------------------------------------------------
(* The properties of parse2.main *)

\* The contents of the entries of a log that were found, each followed by a
\* line break, in the order of the log.
RECURSIVE FoundContents(_)
FoundContents(log) ==
    IF log = <<>> THEN <<>>
    ELSE (IF Head(log).kind = "found" THEN Head(log).content \o <<NL>> ELSE <<>>)
         \o FoundContents(Tail(log))

\* c is what reading some file of the tree gives: its trimmed text, or the
\* placeholder of a read that failed.
IsFileContent(c) ==
    \E n \in tree : /\ n.kind = "file"
                    /\ IF n.readable THEN c = Strip(UniversalNewlines(n.text))
                       ELSE StartsWith(c, ErrorReadingPrefix)

HasKind(kind) == \E i \in DOMAIN processed : processed[i].kind = kind

\* C1: throughout a run of parse2.main the counting buffer is the
\* concatenation, in processing order, of content + line break for each item
\* that was classified as a wikilink and whose file was located, the content
\* being the trimmed text of a file or the placeholder of a failed read; plain
\* items and links that were not found add nothing; and the Word Count that is
\* printed is count_words_in_markdown of that buffer.
C1_CountingBuffer ==
    /\ word_count_buffer = FoundContents(processed)
    /\ \A i \in DOMAIN processed :
           processed[i].kind = "found" => IsFileContent(processed[i].content)
    /\ pc = "done" =>
           /\ word_count = count_words_in_markdown(FoundContents(processed))
           /\ stdout[1] = [kind |-> "word_count", n |-> word_count]

\* A run that ended after items of all three kinds, with words counted.
C1_Witness ==
    /\ pc = "done"
    /\ HasKind("found") /\ HasKind("missing") /\ HasKind("plain")
    /\ word_count > 0

\* The Final-mode line of each entry of a log: the content of a found link,
\* the placeholder of a missing one, the text of a plain item.
RECURSIVE FinalLines(_)
FinalLines(log) ==
    IF log = <<>> THEN <<>>
    ELSE (CASE Head(log).kind = "found" -> Head(log).content
            [] Head(log).kind = "missing" ->
                   LinkNotFoundPrefix \o Head(log).shown \o <<"]">>
            [] Head(log).kind = "plain" -> Head(log).shown)
         \o <<NL>> \o FinalLines(Tail(log))

\* C5 as stated: in Final mode the display buffer holds only the contents of
\* the found wikilink targets, each followed by one line break, and no other
\* text.
C5_OnlyFoundContents ==
    (pc = "done" /\ final_mode) => output_buffer = FoundContents(processed)

\* C5: in Final mode the display buffer is one line per item, in item order:
\* the content of a found wikilink target, '[Link not found: <target>]' for a
\* missing one, the cleaned text of a plain item, each followed by one line
\* break; no '---' separator and no '[[target]]' back-reference is added.
C5_FinalDisplay == final_mode => output_buffer = FinalLines(processed)

\* A Final-mode run that ended after items of all three kinds.
C5_Witness ==
    /\ pc = "done" /\ final_mode
    /\ HasKind("found") /\ HasKind("missing") /\ HasKind("plain")
    /\ output_buffer # <<>>

\* C3 as stated: once the files to process are known, no failure of file I/O
\* aborts the run.  A run that was aborted while files or items were still to
\* be processed refutes it.
C3_NoAbort ==
    ~(pc = "crashed" /\ (files_to_process # <<>> \/ items_todo # <<>>))

\* C4 as stated: when --final is among the arguments, the run is in Final
\* mode and the target and the root are those of the argument list without
\* the flag; without a positional argument left the run ends with the usage
\* message and exit code 1.
C4_FlagAnywhere ==
    (pc # "start" /\ FinalFlag \in Range(Tail(argv))) =>
        LET positional == SelectSeq(Tail(argv), LAMBDA a : a # FinalFlag) IN
        IF positional = <<>>
        THEN pc = "exit" /\ exit_code = 1 /\ stdout = <<[kind |-> "usage"]>>
        ELSE /\ final_mode
             /\ input_arg = positional[1]
             /\ root_folder = IF Len(positional) > 1 THEN positional[2] ELSE Dot

\* The sum of the word counts of the found contents of a log.
RECURSIVE SumOfCounts(_)
SumOfCounts(log) ==
    IF log = <<>> THEN 0
    ELSE (IF Head(log).kind = "found"
          THEN count_words_in_markdown(Head(log).content) ELSE 0)
         + SumOfCounts(Tail(log))

\* No markup of c can reach into the text that follows it: c opens no bracket
\* and no tag, and does not end with a heading or list marker.
Separable(c) ==
    /\ \A i \in DOMAIN c : c[i] \notin {"[", "<"}
    /\ c = <<>> \/ c[Len(c)] \notin {"#", "-", "*", "+", ".", BT}

AllSeparable ==
    \A i \in DOMAIN processed :
        processed[i].kind = "found" => Separable(processed[i].content)

\* C10 as stated: the Word Count that is printed is the sum of the word counts
\* of the resolved contents.
C10_SumOfCounts == pc = "done" => word_count = SumOfCounts(processed)

\* C10: the Word Count that is printed is count_words_in_markdown of the
\* contents joined, each followed by a line break; it is the sum of the word
\* counts of the contents when no content holds '[' or '<' and none ends with
\* '#', '-', '*', '+', '.' or a backquote.
C10_WholeBuffer ==
    pc = "done" =>
        /\ word_count = count_words_in_markdown(FoundContents(processed))
        /\ AllSeparable => word_count = SumOfCounts(processed)

\* A run that resolved the same target twice, all contents separable.
C10_Witness ==
    /\ pc = "done"
    /\ AllSeparable
    /\ \E i, j \in DOMAIN processed :
           /\ i < j
           /\ processed[i].kind = "found" /\ processed[j].kind = "found"
           /\ processed[i].shown = processed[j].shown
           /\ count_words_in_markdown(processed[i].content) > 1
    /\ word_count > 3

-----------------------------------------------------------------------------
(* The properties of parse_headings.main against parse2.main *)

\* parse2.main took the target for a single file.
SingleFileTarget == ~IsDir(tree, PathOf(root_folder) \o PathOf(input_arg))

\* The lines of the file both programs read.
SourceLines ==
    SplitLines(NodeAt(tree, find_markdown_file(tree, root_folder, input_arg).path).text)

\* No line is '##' alone.
NoBareHeading(ls) == \A i \in DOMAIN ls : Strip(ls[i]) # <<"#", "#">>

BothDone ==
    /\ pc = "done" /\ min_pc = "done"
    /\ root_folder = MinRootFolder
    /\ SingleFileTarget

\* C6 as stated: for a single-file target, what parse_headings.main prints is
\* the display text of parse2.main in Normal mode for the same target and
\* root, and both segment the lines into the same pairs.
C6_NormalModeSubset ==
    (BothDone /\ ~final_mode) =>
        /\ min_out = output_buffer
        /\ min_headings_with_items = headings_with_items

\* C6: for a single-file target none of whose lines is '##' alone, both
\* programs segment the lines into the same pairs; when there is a heading,
\* parse_headings.main prints one line per item as parse2.main does in Final
\* mode, which is the display buffer of parse2.main when it ran in Final mode
\* on the same target and root; when there is none it prints 'No list items
\* found in the file.'.
C6_FinalModeSubset ==
    (BothDone /\ NoBareHeading(SourceLines)) =>
        /\ min_headings_with_items = headings_with_items
        /\ headings_with_items # <<>> => min_out = FinalLines(processed)
        /\ (headings_with_items # <<>> /\ final_mode) => min_out = output_buffer
        /\ headings_with_items = <<>> => (min_out = MinNoItems /\ output_buffer = <<>>)

\* Both programs ended on a file with a heading, a found link and another item.
C6_Witness ==
    /\ BothDone /\ final_mode
    /\ NoBareHeading(SourceLines)
    /\ HasKind("found")
    /\ HasKind("plain") \/ HasKind("missing")
    /\ min_out = output_buffer

-----------------------------------------------------------------------------
(* The properties of count_words_in_markdown *)

\* The number of the maximal runs of characters of t that are no white space.
Tokens(t) ==
    Cardinality({i \in DOMAIN t : ~IsSpace(t[i]) /\ (i = 1 \/ IsSpace(t[i - 1]))})

\* The image spans of t, and whether each has an alt text.
ImageStarts(t) == {i \in DOMAIN t : ImageEnd(t, i) > i}
HasImagesWithAlt(t) ==
    /\ ImageStarts(t) # {}
    /\ \A i \in ImageStarts(t) : At(t, i + 2) # "]"
NoWikilinkNoTag(t) ==
    \A i \in DOMAIN t : WikilinkEnd(t, i) = 0 /\ HtmlTagEnd(t, i) = 0

\* C7 as stated: the count of a text that holds image spans ![alt](url), alt
\* and url not empty, outside wikilinks and HTML tags, is the count of the
\* text with every image span replaced by the empty string.
C7_ImagesRemoved ==
    (pc = "returned" /\ HasImagesWithAlt(text) /\ NoWikilinkNoTag(text)) =>
        word_count = count_words_in_markdown(RemoveImages(text))

\* Text without any character that the substitutions look for.
IsPlainText(c) ==
    \A i \in DOMAIN c : c[i] \notin {"[", "<", "#", "-", "*", "+", "_", "~", "."}

\* C8 as stated: with c the text the cleanup stages leave of t, the count of c
\* is the number of tokens of c, which is the count of t.
C8_Idempotent ==
    pc = "returned" =>
        LET c == CleanMarkdown(text) IN
        /\ count_words_in_markdown(c) = Tokens(c)
        /\ Tokens(c) = word_count

\* C8: the count of t is the number of tokens of c, the text the cleanup
\* stages leave of t; counting c again gives the same number when c holds
\* none of the characters [ < # - * + _ ~ and '.'.
C8_CleanedCount ==
    pc = "returned" =>
        LET c == CleanMarkdown(text) IN
        /\ word_count = Tokens(c)
        /\ IsPlainText(c) => count_words_in_markdown(c) = word_count

\* A text the cleanup changed into plain text with words in it.
C8_Witness ==
    /\ pc = "returned"
    /\ CleanMarkdown(text) # text
    /\ IsPlainText(CleanMarkdown(text))
    /\ word_count > 0

-----------------------------------------------------------------------------
(* The properties of extract_list_items_by_heading *)

\* A level-2 heading line: trimmed, it is '##' or starts with '## '.
IsHeadingLine(l) ==
    LET s == Strip(l) IN
    \/ s = <<"#", "#">>
    \/ Len(s) > 2 /\ s[1] = "#" /\ s[2] = "#" /\ s[3] = " "

\* A list-item line: trimmed, it starts with '- ' or '* '.
IsItemLine(l) ==
    LET s == Strip(l) IN Len(s) >= 2 /\ s[1] \in {"-", "*"} /\ s[2] = " "

HeadingLines == {i \in DOMAIN lines : IsHeadingLine(lines[i])}

\* The k-th heading line, and the end of its section.
NthHeading(k) ==
    CHOOSE i \in HeadingLines : Cardinality({j \in HeadingLines : j <= i}) = k
SectionEnd(h) ==
    IF \E j \in HeadingLines : j > h
    THEN Least({j \in HeadingLines : j > h}) ELSE Len(lines) + 1

\* The items of the section of the heading at line h.
RECURSIVE ItemsBetween(_, _)
ItemsBetween(i, e) ==
    IF i >= e THEN <<>>
    ELSE (IF IsItemLine(lines[i])
          THEN <<Strip(SubSeq(Strip(lines[i]), 3, Len(Strip(lines[i]))))>>
          ELSE <<>>)
         \o ItemsBetween(i + 1, e)

\* C9: extract_list_items_by_heading of parse2 returns one pair per level-2
\* heading line, in file order, also for a heading without items; the items
\* of a pair are the list-item lines between its heading and the next heading
\* or the end of the file, in order, without marker and surrounding white
\* space; items before the first heading are in no pair, and without a
\* heading the result is empty.
C9_Segmentation ==
    pc = "returned" =>
        /\ Len(headings_with_items) = Cardinality(HeadingLines)
        /\ \A k \in DOMAIN headings_with_items :
               LET h == NthHeading(k)
                   s == Strip(lines[h])
               IN  /\ headings_with_items[k].title = Strip(SubSeq(s, 4, Len(s)))
                   /\ headings_with_items[k].items = ItemsBetween(h + 1, SectionEnd(h))

\* Two headings, the first with an item, the second without, and an item
\* before the first.
C9_Witness ==
    /\ pc = "returned"
    /\ Len(headings_with_items) = 2
    /\ headings_with_items[1].items # <<>>
    /\ headings_with_items[2].items = <<>>
    /\ ~IsHeadingLine(lines[1])

-----------------------------------------------------------------------------
(* The properties of find_markdown_file *)

\* A name without a path separator.
IsBareName(name) == \A i \in DOMAIN name : name[i] # "/"

\* C2 as stated: for a bare name, the file of the normalized name directly in the root when it
\* is a regular file; otherwise a regular file of exactly that name in a
\* subdirectory; and None exactly when no regular file of that name is under
\* the root.
C2_ExactName ==
    (pc = "returned" /\ IsBareName(filename)) =>
        LET fn == IF EndsWith(filename, MdSuffix) THEN filename
                  ELSE filename \o MdSuffix
            root_path == PathOf(root_folder)
            named == {n \in tree : /\ n.kind = "file"
                                   /\ IsPrefix(root_path, n.path)
                                   /\ Name(n.path) = fn}
        IN  /\ IsFile(tree, root_path \o <<fn>>) =>
                   found = Located(root_path \o <<fn>>)
            /\ (~IsFile(tree, root_path \o <<fn>>) /\ named # {}) =>
                   /\ found.kind = "path"
                   /\ NodeAt(tree, found.path) \in named
            /\ (found = NoneResult) <=> (named = {})

====
